---- MODULE Spec2Model ----
(***************************************************************************)
(* Pre-setup database discovery (pre-setup.discovery.util.ts).             *)
(*                                                                         *)
(* JavaScript values are tagged records; strings are sequences of          *)
(* one-character strings so that parseInt, base64 decoding and template    *)
(* strings are computed rather than assumed.                               *)
(***************************************************************************)
EXTENDS Integers, Sequences, FiniteSets, TLC

VARIABLES
  env,        \* process.env as the running call sees it
  api,        \* the exported function that was called
  outcome,    \* how that call ended, once it has
  hostEnvs,   \* what scanProcessEnv returned
  envPrep,    \* the prepareDatabaseFromEnvs call of each host key
  file,       \* the file behind the path given to discoverFileDatabasesToAdd
  filePc,     \* where discoverFileDatabasesToAdd stands
  filePrep,   \* the prepareDatabaseFromFile call of each array element
  uuids,      \* the number of identifiers uuidv4() has handed out
  normInput,  \* the argument of a direct populateDefaultValues call
  certCall    \* the arguments and effects of a direct getCertificateData call

vars == <<env, api, outcome, hostEnvs, envPrep, file, filePc, filePrep, uuids,
          normInput, certCall>>

(* ------------------------------ bounds --------------------------------- *)

\* longest JSON array the file pipeline is given
MaxElems == 2

(* --------------------------- JavaScript values ------------------------- *)

Undef == [t |-> "undefined"]
Null == [t |-> "null"]
NaN == [t |-> "NaN"]
Str(s) == [t |-> "string", v |-> s]
Num(n) == [t |-> "number", v |-> n]
Bool(b) == [t |-> "boolean", v |-> b]
Obj(o) == [t |-> "object", v |-> o]
Arr(a) == [t |-> "array", v |-> a]

\* JavaScript truthiness, as used by ||, && and if (...)
Truthy(x) ==
  CASE x.t = "undefined" -> FALSE
    [] x.t = "null" -> FALSE
    [] x.t = "NaN" -> FALSE
    [] x.t = "string" -> x.v # <<>>
    [] x.t = "number" -> x.v # 0
    [] x.t = "boolean" -> x.v
    [] OTHER -> TRUE

\* a || b
Or(a, b) == IF Truthy(a) THEN a ELSE b

Digit == [c \in {"0", "1", "2", "3", "4", "5", "6", "7", "8", "9"} |->
  CASE c = "0" -> 0 [] c = "1" -> 1 [] c = "2" -> 2 [] c = "3" -> 3
    [] c = "4" -> 4 [] c = "5" -> 5 [] c = "6" -> 6 [] c = "7" -> 7
    [] c = "8" -> 8 [] c = "9" -> 9]

DigitChar == <<"0", "1", "2", "3", "4", "5", "6", "7", "8", "9">>

RECURSIVE NatToString(_)
NatToString(n) ==
  IF n < 10 THEN <<DigitChar[n + 1]>>
  ELSE NatToString(n \div 10) \o <<DigitChar[(n % 10) + 1]>>

\* String(x), as a template literal `${x}` converts its argument
JsString(x) ==
  CASE x.t = "undefined" -> <<"u", "n", "d", "e", "f", "i", "n", "e", "d">>
    [] x.t = "null" -> <<"n", "u", "l", "l">>
    [] x.t = "NaN" -> <<"N", "a", "N">>
    [] x.t = "string" -> x.v
    [] x.t = "number" ->
         IF x.v < 0 THEN <<"-">> \o NatToString(0 - x.v) ELSE NatToString(x.v)
    [] x.t = "boolean" ->
         IF x.v THEN <<"t", "r", "u", "e">> ELSE <<"f", "a", "l", "s", "e">>
    [] OTHER -> <<"[", "o", "b", "j", "e", "c", "t", "]">>

RECURSIVE SkipSpaces(_)
SkipSpaces(s) ==
  IF s # <<>> /\ Head(s) = " " THEN SkipSpaces(Tail(s)) ELSE s

RECURSIVE LeadingDigits(_)
LeadingDigits(s) ==
  IF s # <<>> /\ Head(s) \in DOMAIN Digit
  THEN <<Head(s)>> \o LeadingDigits(Tail(s))
  ELSE <<>>

RECURSIVE DigitsValue(_, _)
DigitsValue(s, acc) ==
  IF s = <<>> THEN acc ELSE DigitsValue(Tail(s), (acc * 10) + Digit[Head(s)])

\* parseInt(x, 10): undefined and digit-less strings give NaN; leading blanks
\* and a sign are accepted, and parsing stops at the first non-digit
parseInt(x) ==
  IF x.t # "string" THEN NaN
  ELSE LET s0 == SkipSpaces(x.v)
           neg == s0 # <<>> /\ Head(s0) = "-"
           s1 == IF s0 # <<>> /\ Head(s0) \in {"-", "+"} THEN Tail(s0) ELSE s0
           ds == LeadingDigits(s1)
       IN IF ds = <<>> THEN NaN
          ELSE Num(IF neg THEN 0 - DigitsValue(ds, 0) ELSE DigitsValue(ds, 0))

\* the base64 alphabet positions of the characters the model uses
B64Index == [c \in {"Q", "W", "Y", "g", "I"} |->
  CASE c = "Q" -> 16 [] c = "W" -> 22 [] c = "Y" -> 24 [] c = "g" -> 32
    [] c = "I" -> 8]

\* the UTF-8 characters of the bytes the model's secrets decode to
ByteChar(b) == CASE b = 97 -> "a" [] b = 98 -> "b" [] OTHER -> "?"

RECURSIVE B64Sextets(_)
B64Sextets(s) ==
  IF s = <<>> \/ Head(s) = "=" THEN <<>>
  ELSE IF Head(s) \in DOMAIN B64Index
       THEN <<B64Index[Head(s)]>> \o B64Sextets(Tail(s))
       ELSE B64Sextets(Tail(s))

RECURSIVE B64Bits(_)
B64Bits(q) ==
  IF q = <<>> THEN 0 ELSE (B64Bits(SubSeq(q, 1, Len(q) - 1)) * 64) + q[Len(q)]

RECURSIVE B64Bytes(_)
B64Bytes(q) ==
  IF Len(q) >= 4
  THEN LET w == B64Bits(SubSeq(q, 1, 4))
       IN <<ByteChar(w \div 65536), ByteChar((w \div 256) % 256),
            ByteChar(w % 256)>> \o B64Bytes(SubSeq(q, 5, Len(q)))
  ELSE IF Len(q) = 3
  THEN LET w == B64Bits(q) \div 4
       IN <<ByteChar(w \div 256), ByteChar(w % 256)>>
  ELSE IF Len(q) = 2
  THEN <<ByteChar(B64Bits(q) \div 16)>>
  ELSE <<>>

\* Buffer.from(s, 'base64').toString(): characters outside the alphabet are
\* skipped, decoding stops at the padding, and nothing is ever thrown
Base64Decode(s) == B64Bytes(B64Sextets(s))

(* ------------------------- connection definitions ---------------------- *)

\* Compressor.NONE and ConnectionType.NOT_CONNECTED (database.entity)
CompressorNONE == Str(<<"N", "O", "N", "E">>)
NOT_CONNECTED == Str(<<"NOT_CONNECTED">>)

\* the members of the Compressor enum
Compressors ==
  {CompressorNONE, Str(<<"G", "Z", "I", "P">>), Str(<<"Z", "S", "T", "D">>),
   Str(<<"L", "Z", "4">>), Str(<<"S", "N", "A", "P", "P", "Y">>),
   Str(<<"B", "r", "o", "t", "l", "i">>),
   Str(<<"P", "H", "P", "G", "Z", "C", "o", "m", "p", "r", "e", "s", "s">>)}

\* Partial<Database> with nothing set: a field holds Undef until it is given
EmptyDatabase ==
  [id |-> Undef, host |-> Undef, port |-> Undef, name |-> Undef, db |-> Undef,
   provider |-> Undef, modules |-> Undef, verifyServerCert |-> Undef,
   ssh |-> Undef, sshOptions |-> Undef, tls |-> Undef, tlsServername |-> Undef,
   caCert |-> Undef, clientCert |-> Undef, nameFromProvider |-> Undef,
   username |-> Undef, password |-> Undef, compressor |-> Undef,
   connectionType |-> Undef, isPreSetup |-> Undef]

\* a certificate sub-entity with nothing set
EmptyCert ==
  [certificate |-> Undef, key |-> Undef, id |-> Undef, name |-> Undef,
   isPreSetup |-> Undef]

\* a destructuring default: it applies to undefined only, never to null
Default(x, d) == IF x = Undef THEN d ELSE x

\* caCert && {...caCert, id: database.id, name: `${database.id}_${name}`,
\*            isPreSetup: true}
StampCert(cert, database, name) ==
  IF Truthy(cert)
  THEN Obj([cert.v EXCEPT
              !.id = database.id,
              !.name = Str(JsString(database.id) \o <<"_">> \o JsString(name)),
              !.isPreSetup = Bool(TRUE)])
  ELSE cert

\* populateDefaultValues(database), with uuid the value uuidv4() returns if
\* it is called.  {...database} contributes no modelled field: each one is
\* written again after the spread.
populateDefaultValues(database, uuid) ==
  LET port == Default(database.port, Num(6379))
      name == Default(database.name,
                      Str(JsString(database.host) \o <<":">> \o JsString(port)))
  IN [id |-> Default(database.id, uuid),
      host |-> database.host,
      port |-> port,
      db |-> Default(database.db, Null),
      provider |-> Default(database.provider, Null),
      modules |-> Default(database.modules, Arr(<<>>)),
      verifyServerCert |-> Default(database.verifyServerCert, Null),
      ssh |-> Default(database.ssh, Null),
      sshOptions |-> Default(database.sshOptions, Null),
      tls |-> Default(database.tls, Bool(FALSE)),
      tlsServername |-> Default(database.tlsServername, Null),
      caCert |-> StampCert(Default(database.caCert, Null), database, name),
      clientCert |-> StampCert(Default(database.clientCert, Null), database, name),
      nameFromProvider |-> Default(database.nameFromProvider, Null),
      username |-> Default(database.username, Null),
      password |-> Default(database.password, Null),
      compressor |-> Default(database.compressor, CompressorNONE),
      name |-> name,
      connectionType |-> NOT_CONNECTED,
      isPreSetup |-> Bool(TRUE)]

\* the n-th identifier uuidv4() hands out; no two calls return the same one
Uuid(n) == Str(<<"u", "u", "i", "d", "-">> \o NatToString(n))

(* ----------------------------- process.env ----------------------------- *)

\* the id suffixes of the modelled variables: RI_REDIS_HOST, RI_REDIS_HOST0
\* and RI_REDIS_HOST1
Suffixes == {<<>>, <<"0">>, <<"1">>}

Bases ==
  {"RI_REDIS_HOST", "RI_REDIS_PORT", "RI_REDIS_DB", "RI_REDIS_ALIAS",
   "RI_REDIS_USERNAME", "RI_REDIS_PASSWORD", "RI_REDIS_TLS",
   "RI_REDIS_COMPRESSOR",
   "RI_REDIS_TLS_CA_BASE64", "RI_REDIS_TLS_CA_PATH",
   "RI_REDIS_TLS_CERT_BASE64", "RI_REDIS_TLS_CERT_PATH",
   "RI_REDIS_TLS_KEY_BASE64", "RI_REDIS_TLS_KEY_PATH"}

\* the variable named `${base}${id}`
Key(base, id) == [base |-> base, id |-> id]

Keys == {Key(b, s) : b \in Bases, s \in Suffixes}

\* a snapshot with no modelled variable set
EmptyEnv == [k \in Keys |-> Undef]

\* process.env[`${base}${id}`]
Getenv(base, id) ==
  IF Key(base, id) \in DOMAIN env THEN env[Key(base, id)] ELSE Undef

\* scanProcessEnv over the snapshot e: the keys that start with
\* RI_REDIS_HOST and hold a non-empty value, named by their suffixes
scanProcessEnv(e) ==
  {s \in Suffixes : Truthy(e[Key("RI_REDIS_HOST", s)])}

\* the orders in which Object.entries(process.env) can list the keys ks
Orderings(ks) ==
  {o \in [1..Cardinality(ks) -> ks] :
     \A i, j \in 1..Cardinality(ks) : i # j => o[i] # o[j]}

(* -------------------------- getCertificateData ------------------------- *)

\* `${envPrefix}_BASE64` and `${envPrefix}_PATH` for the three prefixes
Prefixes == {"RI_REDIS_TLS_CA", "RI_REDIS_TLS_CERT", "RI_REDIS_TLS_KEY"}

Base64Var(envPrefix) ==
  CASE envPrefix = "RI_REDIS_TLS_CA" -> "RI_REDIS_TLS_CA_BASE64"
    [] envPrefix = "RI_REDIS_TLS_CERT" -> "RI_REDIS_TLS_CERT_BASE64"
    [] envPrefix = "RI_REDIS_TLS_KEY" -> "RI_REDIS_TLS_KEY_BASE64"

PathVar(envPrefix) ==
  CASE envPrefix = "RI_REDIS_TLS_CA" -> "RI_REDIS_TLS_CA_PATH"
    [] envPrefix = "RI_REDIS_TLS_CERT" -> "RI_REDIS_TLS_CERT_PATH"
    [] envPrefix = "RI_REDIS_TLS_KEY" -> "RI_REDIS_TLS_KEY_PATH"

\* what readFile(path, 'utf8') can settle with
ReadOutcomes ==
  {[kind |-> "ok", data |-> <<"a">>], [kind |-> "ok", data |-> <<>>],
   [kind |-> "error"]}

\* getCertificateData looking at the path before the inline value
CertificateSourcePathFirst(envPrefix, id) ==
  LET base64 == Or(Getenv(Base64Var(envPrefix), id), Str(<<>>))
      path == Or(Getenv(PathVar(envPrefix), id), Str(<<>>))
  IN IF Truthy(path)
     THEN [kind |-> "read", path |-> path]
     ELSE IF Truthy(base64)
     THEN [kind |-> "return", value |-> Str(Base64Decode(base64.v))]
     ELSE [kind |-> "return", value |-> Null]

\* getCertificateData up to its first await: the inline value wins and is
\* returned decoded, else a set path asks for a file read, else null
CertificateSource(envPrefix, id) ==
  LET base64 == Or(Getenv(Base64Var(envPrefix), id), Str(<<>>))
      path == Or(Getenv(PathVar(envPrefix), id), Str(<<>>))
  IN IF Truthy(base64)
     THEN [kind |-> "return", value |-> Str(Base64Decode(base64.v))]
     ELSE IF Truthy(path)
     THEN [kind |-> "read", path |-> path]
     ELSE [kind |-> "return", value |-> Null]

\* getCertificateData after readFile settled: the contents, or the catch
\* block's warning followed by return null
CertificateAfterRead(read) ==
  IF read.kind = "ok"
  THEN [value |-> Str(read.data), warned |-> FALSE]
  ELSE [value |-> Null, warned |-> TRUE]

\* getCertificateData as one settled call: its value, whether it warned and
\* whether it read a file
getCertificateData(envPrefix, id, read) ==
  LET src == CertificateSource(envPrefix, id)
  IN IF src.kind = "return"
     THEN [value |-> src.value, warned |-> FALSE, readFile |-> FALSE]
     ELSE [value |-> CertificateAfterRead(read).value,
           warned |-> CertificateAfterRead(read).warned,
           readFile |-> TRUE]

(* ------------------------------ promises ------------------------------- *)

Pending == [kind |-> "pending"]
Resolved(x) == [kind |-> "resolved", value |-> x]
Rejected == [kind |-> "rejected"]

\* Promise.all: rejected as soon as one member is, else the values in order
PromiseAll(settled) ==
  IF \E i \in DOMAIN settled : settled[i].kind = "rejected"
  THEN Rejected
  ELSE Resolved([i \in DOMAIN settled |-> settled[i].value])

\* .filter((v) => !!v) applied to what Promise.all settled with
FilterTruthy(p) ==
  IF p.kind = "rejected" THEN p
  ELSE Resolved(SelectSeq(p.value, Truthy))

\* validator.validateOrReject(plainToClass(...)): the prepared definition is
\* returned when validation passes; a list of violations or any other error
\* is thrown
Verdicts == {"ok", "invalid", "error"}

ValidateOrReject(prepared, verdict) ==
  IF verdict = "ok" THEN Resolved(prepared) ELSE Rejected

(* ------------------------ prepareDatabaseFromEnvs ---------------------- *)

TrueString == Str(<<"t", "r", "u", "e">>)

\* databaseToAdd as built from the variables of suffix id
DatabaseFromEnvs(id) ==
  [EmptyDatabase EXCEPT
     !.id = Or(Str(id), Str(<<"0">>)),
     !.host = Getenv("RI_REDIS_HOST", id),
     !.port = Or(parseInt(Getenv("RI_REDIS_PORT", id)), Num(6379)),
     !.db = Or(parseInt(Getenv("RI_REDIS_DB", id)), Num(0)),
     !.name = Getenv("RI_REDIS_ALIAS", id),
     !.username = Getenv("RI_REDIS_USERNAME", id),
     !.password = Getenv("RI_REDIS_PASSWORD", id),
     !.tls = Bool(Getenv("RI_REDIS_TLS", id) = TrueString),
     !.compressor = Getenv("RI_REDIS_COMPRESSOR", id)]

\* the CA certificate and the client certificate attached to databaseToAdd
WithCertificates(databaseToAdd, tlsCA, tlsCertificate, tlsKey) ==
  LET withCA ==
        IF Truthy(tlsCA)
        THEN [databaseToAdd EXCEPT
                !.caCert = Obj([EmptyCert EXCEPT !.certificate = tlsCA])]
        ELSE databaseToAdd
  IN IF Truthy(tlsCertificate) /\ Truthy(tlsKey)
     THEN [withCA EXCEPT
             !.clientCert = Obj([EmptyCert EXCEPT !.certificate = tlsCertificate,
                                                  !.key = tlsKey]),
             !.verifyServerCert = Bool(TRUE)]
     ELSE withCA

\* prepareDatabaseFromEnvs with a catch block that throws again
CatchPrepareFromEnvsRethrows(p) == p

\* the catch block of prepareDatabaseFromEnvs: log, return null
CatchPrepareFromEnvs(p) ==
  IF p.kind = "rejected" THEN Resolved(Null) ELSE p

\* the catch block of discoverEnvDatabasesToAdd: log, return []
CatchDiscoverEnv(p) ==
  IF p.kind = "rejected"
  THEN [kind |-> "returned", value |-> <<>>]
  ELSE [kind |-> "returned", value |-> p.value]

IdlePrep ==
  [pc |-> "idle", hung |-> FALSE, tlsCA |-> Undef, tlsCertificate |-> Undef,
   tlsKey |-> Undef, databaseToAdd |-> Undef, prepared |-> Undef,
   passed |-> FALSE, settled |-> Pending]

\* the secret a preparation is waiting for at each await
PrefixAt(pc) ==
  CASE pc = "ca" -> "RI_REDIS_TLS_CA"
    [] pc = "cert" -> "RI_REDIS_TLS_CERT"
    [] pc = "key" -> "RI_REDIS_TLS_KEY"

\* Promise.all(hostEnvs.map(prepareDatabaseFromEnvs)): map starts every
\* preparation before any of them is awaited
Started(s) == \E i \in DOMAIN hostEnvs : hostEnvs[i] = s

(* ---------------------------- the snapshots ---------------------------- *)

\* every combination of unset, empty and set host variables
HostSnapshots ==
  {[k \in Keys |-> IF k.base = "RI_REDIS_HOST" THEN h[k.id] ELSE Undef] :
     h \in [Suffixes -> {Undef, Str(<<>>), Str(<<"h">>)}]}

PortValues ==
  {Undef, Str(<<"0">>), Str(<<"6", "3", "8", "0">>), Str(<<"x">>)}
DbValues == {Undef, Str(<<"2">>), Str(<<"x">>)}
TlsValues == {Undef, TrueString, Str(<<"1">>)}
AliasValues == {Undef, Str(<<"n">>)}
CompressorValues == {Undef, Str(<<"G", "Z", "I", "P">>), Str(<<"f", "o", "o">>)}

\* one host key, of suffix s, and the field variables of suffix s2
FieldSnapshots ==
  {[k \in Keys |->
      CASE k = Key("RI_REDIS_HOST", s) -> Str(<<"h", "o", "s", "t">>)
        [] k = Key("RI_REDIS_PORT", s2) -> port
        [] k = Key("RI_REDIS_DB", s2) -> db
        [] k = Key("RI_REDIS_TLS", s2) -> tls
        [] k = Key("RI_REDIS_ALIAS", s2) -> alias
        [] k = Key("RI_REDIS_COMPRESSOR", s2) -> compressor
        [] OTHER -> Undef] :
     s \in Suffixes, s2 \in Suffixes, port \in PortValues, db \in DbValues,
     tls \in TlsValues, alias \in AliasValues, compressor \in CompressorValues}

\* the host keys of suffix "" and "1", the secrets of suffix "" from inline
\* values and paths, and a CA path for suffix "1"
CertSnapshots ==
  {[k \in Keys |->
      CASE k.base = "RI_REDIS_HOST" /\ k.id # <<"0">> -> Str(<<"h">>)
        [] k = Key("RI_REDIS_TLS_CA_BASE64", <<>>) -> ca64
        [] k = Key("RI_REDIS_TLS_CA_PATH", <<>>) -> caPath
        [] k = Key("RI_REDIS_TLS_CERT_BASE64", <<>>) -> cert64
        [] k = Key("RI_REDIS_TLS_KEY_BASE64", <<>>) -> key64
        [] k = Key("RI_REDIS_TLS_KEY_PATH", <<>>) -> keyPath
        [] k = Key("RI_REDIS_TLS_CA_PATH", <<"1">>) -> caPath1
        [] OTHER -> Undef] :
     ca64 \in {Undef, Str(<<>>), Str(<<"Y", "Q", "=", "=">>), Str(<<"!">>)},
     caPath \in {Undef, Str(<<"/", "c", "a">>)},
     cert64 \in {Undef, Str(<<"Y", "g", "=", "=">>)},
     key64 \in {Undef, Str(<<"Y", "W", "I", "=">>)},
     keyPath \in {Undef, Str(<<>>), Str(<<"/", "k">>)},
     caPath1 \in {Undef, Str(<<"/", "c", "a">>)}}

Snapshots == HostSnapshots \cup FieldSnapshots \cup CertSnapshots

\* the host keys of suffix "" and "1", each with a CA certificate that may
\* be read from a file
PathSnapshots ==
  {[k \in Keys |->
      CASE k.base = "RI_REDIS_HOST" /\ k.id # <<"0">> -> Str(<<"h">>)
        [] k = Key("RI_REDIS_TLS_CA_PATH", <<>>) -> caPath
        [] k = Key("RI_REDIS_TLS_CA_PATH", <<"1">>) -> caPath1
        [] OTHER -> Undef] :
     caPath \in {Undef, Str(<<"/", "c", "a">>)},
     caPath1 \in {Undef, Str(<<"/", "c", "a">>)}}

(* ----------------------- discoverEnvDatabasesToAdd --------------------- *)

\* the preparations awaited one after the other, as a loop over hostEnvs
\* that awaits each call would run them
RunnableInTurn(s) ==
  /\ Started(s)
  /\ envPrep[s].pc \in {"ca", "cert", "key", "validate"}
  /\ ~envPrep[s].hung
  /\ \A i, j \in DOMAIN hostEnvs :
       (hostEnvs[j] = s /\ i < j) => envPrep[hostEnvs[i]].pc = "done"

\* a started preparation takes its next step whenever what it awaits has
\* settled, whatever the other preparations do
Runnable(s) ==
  /\ Started(s)
  /\ envPrep[s].pc \in {"ca", "cert", "key", "validate"}
  /\ ~envPrep[s].hung

\* discoverEnvDatabasesToAdd is called: scanProcessEnv, then map runs each
\* prepareDatabaseFromEnvs up to its first await
CallDiscoverEnvFrom(snapshots) ==
  /\ api = "none"
  /\ \E e \in snapshots :
       \E order \in Orderings(scanProcessEnv(e)) :
         /\ env' = e
         /\ hostEnvs' = order
         /\ envPrep' = [s \in Suffixes |->
              IF s \in scanProcessEnv(e)
              THEN [IdlePrep EXCEPT !.pc = "ca"]
              ELSE IdlePrep]
  /\ api' = "discoverEnvDatabasesToAdd"
  /\ outcome' = [kind |-> "pending"]
  /\ UNCHANGED <<file, filePc, filePrep, uuids, normInput, certCall>>

CallDiscoverEnv == CallDiscoverEnvFrom(Snapshots)

\* the secret a preparation awaits settles; after the key, the definition is
\* normalized and handed to the validator
ResolveSecret(s) ==
  /\ api = "discoverEnvDatabasesToAdd"
  /\ Runnable(s)
  /\ envPrep[s].pc # "validate"
  /\ LET p == envPrep[s]
         src == CertificateSource(PrefixAt(p.pc), s)
     IN \E read \in (IF src.kind = "read" THEN ReadOutcomes
                     ELSE {[kind |-> "none"]}) :
          LET data == getCertificateData(PrefixAt(p.pc), s, read).value
              toAdd == WithCertificates(DatabaseFromEnvs(s), p.tlsCA,
                                        p.tlsCertificate, data)
          IN envPrep' = [envPrep EXCEPT ![s] =
               CASE p.pc = "ca" -> [p EXCEPT !.pc = "cert", !.tlsCA = data]
                 [] p.pc = "cert" ->
                      [p EXCEPT !.pc = "key", !.tlsCertificate = data]
                 [] p.pc = "key" ->
                      [p EXCEPT !.pc = "validate", !.tlsKey = data,
                                !.databaseToAdd = Obj(toAdd),
                                !.prepared =
                                  Obj(populateDefaultValues(toAdd, Uuid(uuids + 1)))]]
  /\ UNCHANGED <<env, api, outcome, hostEnvs, file, filePc, filePrep, uuids,
                 normInput, certCall>>

\* the file read a preparation awaits never settles
HangRead(s) ==
  /\ api = "discoverEnvDatabasesToAdd"
  /\ Runnable(s)
  /\ envPrep[s].pc # "validate"
  /\ CertificateSource(PrefixAt(envPrep[s].pc), s).kind = "read"
  /\ envPrep' = [envPrep EXCEPT ![s].hung = TRUE]
  /\ UNCHANGED <<env, api, outcome, hostEnvs, file, filePc, filePrep, uuids,
                 normInput, certCall>>

\* validateOrReject settles and prepareDatabaseFromEnvs returns
ValidateEnv(s) ==
  /\ api = "discoverEnvDatabasesToAdd"
  /\ Runnable(s)
  /\ envPrep[s].pc = "validate"
  /\ \E verdict \in Verdicts :
       envPrep' = [envPrep EXCEPT ![s] =
         [envPrep[s] EXCEPT
            !.pc = "done",
            !.passed = (verdict = "ok"),
            !.settled = CatchPrepareFromEnvs(
                          ValidateOrReject(envPrep[s].prepared, verdict))]]
  /\ UNCHANGED <<env, api, outcome, hostEnvs, file, filePc, filePrep, uuids,
                 normInput, certCall>>

\* the await of Promise.all ends, and discoverEnvDatabasesToAdd with it
JoinEnv ==
  /\ api = "discoverEnvDatabasesToAdd"
  /\ outcome.kind = "pending"
  /\ LET settled == [i \in DOMAIN hostEnvs |-> envPrep[hostEnvs[i]].settled]
     IN /\ \/ \A i \in DOMAIN settled : settled[i].kind # "pending"
           \/ \E i \in DOMAIN settled : settled[i].kind = "rejected"
        /\ outcome' = CatchDiscoverEnv(FilterTruthy(PromiseAll(settled)))
  /\ UNCHANGED <<env, api, hostEnvs, envPrep, file, filePc, filePrep, uuids,
                 normInput, certCall>>

(* ----------------------- discoverFileDatabasesToAdd -------------------- *)

BothCerts ==
  Obj([EmptyCert EXCEPT !.certificate = Str(<<"c">>), !.key = Str(<<"k">>)])

\* the elements a JSON array in the file is made of: null, a number, and
\* objects with or without an id, a client certificate and verifyServerCert
FileElements ==
  {Null, Num(5)} \cup
  {Obj([EmptyDatabase EXCEPT !.id = id, !.host = Str(<<"h">>),
                             !.clientCert = clientCert,
                             !.verifyServerCert = verifyServerCert]) :
     id \in {Undef, Str(<<"0">>)},
     clientCert \in {Undef, BothCerts},
     verifyServerCert \in {Undef, Null, Bool(FALSE)}}

\* what the file can hold: text that is no JSON, or the JSON text of null,
\* of a number, of an object, or of an array of at most MaxElems elements
FileTexts ==
  {[kind |-> "garbage"]} \cup
  {[kind |-> "json", value |-> v] :
     v \in {Null, Num(5), Obj(EmptyDatabase)} \cup
           {Arr(a) : a \in UNION {[1..n -> FileElements] : n \in 0..MaxElems}}}

\* JSON.parse: the value, or a SyntaxError
JSONParse(text) ==
  IF text.kind = "json" THEN Resolved(text.value) ELSE Rejected

\* destructuring null throws; a primitive has no own fields
AsPartial(element) ==
  IF element.t = "object" THEN element.v ELSE EmptyDatabase

\* whether populateDefaultValues(element) evaluates the default uuidv4()
CallsUuid(element) ==
  element # Null /\ AsPartial(element).id = Undef

\* the number of uuidv4() calls the first n elements make
RECURSIVE UuidCalls(_, _)
UuidCalls(elements, n) ==
  IF n = 0 THEN 0
  ELSE UuidCalls(elements, n - 1) + (IF CallsUuid(elements[n]) THEN 1 ELSE 0)

\* populateDefaultValues inside prepareDatabaseFromFile's try block
PopulateFromFile(element, uuid) ==
  IF element = Null THEN Rejected
  ELSE Resolved(Obj(populateDefaultValues(AsPartial(element), uuid)))

\* the catch block of prepareDatabaseFromFile: warn, return null
CatchPrepareFromFile(p) ==
  IF p.kind = "rejected" THEN Resolved(Null) ELSE p

\* discoverFileDatabasesToAdd without its try/catch: the error propagates
CatchDiscoverFileRethrows(p) ==
  IF p.kind = "rejected"
  THEN [kind |-> "raised"]
  ELSE [kind |-> "returned", value |-> p.value]

\* the catch block of discoverFileDatabasesToAdd: warn, then return []
CatchDiscoverFile(p) ==
  IF p.kind = "rejected"
  THEN [kind |-> "returned", value |-> <<>>]
  ELSE [kind |-> "returned", value |-> p.value]

\* fileData.map(prepareDatabaseFromFile): each call runs up to its await of
\* the validator, or to its catch block
FanOut(elements) ==
  [i \in DOMAIN elements |->
     LET p == PopulateFromFile(elements[i],
                               Uuid(uuids + UuidCalls(elements, i)))
     IN IF p.kind = "rejected"
        THEN [pc |-> "done", element |-> elements[i], prepared |-> Undef,
              passed |-> FALSE, settled |-> CatchPrepareFromFile(p)]
        ELSE [pc |-> "validate", element |-> elements[i],
              prepared |-> p.value, passed |-> FALSE, settled |-> Pending]]

\* the states of the file behind the path: missing, unreadable, or readable
\* with one of the texts
Files ==
  {[exists |-> FALSE, read |-> [kind |-> "error"]],
   [exists |-> TRUE, read |-> [kind |-> "error"]]} \cup
  {[exists |-> TRUE, read |-> [kind |-> "ok", text |-> t]] : t \in FileTexts}

\* discoverFileDatabasesToAdd(path) is called and awaits pathExists
CallDiscoverFile ==
  /\ api = "none"
  /\ file' \in Files
  /\ api' = "discoverFileDatabasesToAdd"
  /\ filePc' = "pathExists"
  /\ outcome' = [kind |-> "pending"]
  /\ UNCHANGED <<env, hostEnvs, envPrep, filePrep, uuids, normInput, certCall>>

\* pathExists settles: a missing path skips the if and returns []
FilePathExists ==
  /\ api = "discoverFileDatabasesToAdd"
  /\ filePc = "pathExists"
  /\ IF file.exists
     THEN filePc' = "readFile" /\ UNCHANGED outcome
     ELSE filePc' = "done" /\ outcome' = [kind |-> "returned", value |-> <<>>]
  /\ UNCHANGED <<env, api, hostEnvs, envPrep, file, filePrep, uuids,
                 normInput, certCall>>

\* readFile settles; its text is parsed and mapped over
FileRead ==
  /\ api = "discoverFileDatabasesToAdd"
  /\ filePc = "readFile"
  /\ LET fileData == IF file.read.kind = "ok" THEN JSONParse(file.read.text)
                     ELSE Rejected
     IN IF fileData.kind = "resolved" /\ fileData.value.t = "array"
        THEN /\ filePc' = "fanout"
             /\ filePrep' = FanOut(fileData.value.v)
             /\ uuids' = uuids + UuidCalls(fileData.value.v,
                                           Len(fileData.value.v))
             /\ UNCHANGED outcome
        ELSE \* a read error, a SyntaxError, or fileData.map is no function
             /\ filePc' = "done"
             /\ outcome' = CatchDiscoverFile(Rejected)
             /\ UNCHANGED <<filePrep, uuids>>
  /\ UNCHANGED <<env, api, hostEnvs, envPrep, file, normInput, certCall>>

\* validateOrReject settles and prepareDatabaseFromFile returns
ValidateFile(i) ==
  /\ api = "discoverFileDatabasesToAdd"
  /\ filePc = "fanout"
  /\ i \in DOMAIN filePrep
  /\ filePrep[i].pc = "validate"
  /\ \E verdict \in Verdicts :
       filePrep' = [filePrep EXCEPT ![i] =
         [filePrep[i] EXCEPT
            !.pc = "done",
            !.passed = (verdict = "ok"),
            !.settled = CatchPrepareFromFile(
                          ValidateOrReject(filePrep[i].prepared, verdict))]]
  /\ UNCHANGED <<env, api, outcome, hostEnvs, envPrep, file, filePc, uuids,
                 normInput, certCall>>

\* the await of Promise.all ends, and discoverFileDatabasesToAdd with it
JoinFile ==
  /\ api = "discoverFileDatabasesToAdd"
  /\ filePc = "fanout"
  /\ LET settled == [i \in DOMAIN filePrep |-> filePrep[i].settled]
     IN /\ \/ \A i \in DOMAIN settled : settled[i].kind # "pending"
           \/ \E i \in DOMAIN settled : settled[i].kind = "rejected"
        /\ outcome' = CatchDiscoverFile(FilterTruthy(PromiseAll(settled)))
  /\ filePc' = "done"
  /\ UNCHANGED <<env, api, hostEnvs, envPrep, file, filePrep, uuids,
                 normInput, certCall>>

(* ------------------ the exported helpers, called directly -------------- *)

\* the partial definitions populateDefaultValues is called with
Partials ==
  {[EmptyDatabase EXCEPT
      !.id = id, !.host = host, !.port = port, !.name = name, !.db = db,
      !.compressor = compressor, !.caCert = caCert, !.clientCert = clientCert,
      !.verifyServerCert = flags.verifyServerCert, !.tls = flags.tls,
      !.connectionType = flags.connectionType,
      !.isPreSetup = flags.isPreSetup,
      !.provider = rest.provider, !.modules = rest.modules,
      !.ssh = rest.ssh, !.sshOptions = rest.ssh,
      !.tlsServername = rest.text, !.nameFromProvider = rest.text,
      !.username = rest.text, !.password = rest.text] :
     id \in {Undef, Str(<<"7">>)},
     host \in {Undef, Str(<<"h">>)},
     port \in {Undef, Num(6380), Null},
     name \in {Undef, Str(<<"n">>)},
     db \in {Undef, Num(1)},
     compressor \in {Undef, Null, Str(<<"G", "Z", "I", "P">>),
                     Str(<<"f", "o", "o">>)},
     caCert \in {Undef, Null,
                 Obj([EmptyCert EXCEPT !.certificate = Str(<<"c">>)])},
     clientCert \in {Undef, BothCerts},
     flags \in {[verifyServerCert |-> Undef, tls |-> Undef,
                 connectionType |-> Undef, isPreSetup |-> Undef],
                [verifyServerCert |-> Bool(FALSE), tls |-> Bool(TRUE),
                 connectionType |-> Str(<<"STANDALONE">>),
                 isPreSetup |-> Bool(FALSE)]},
     rest \in {[provider |-> Undef, modules |-> Undef, ssh |-> Undef,
                text |-> Undef],
               [provider |-> Str(<<"p">>), modules |-> Arr(<<Str(<<"m">>)>>),
                ssh |-> Bool(TRUE), text |-> Str(<<"t">>)]}}

\* populateDefaultValues(database) is called and returns
CallPopulate ==
  /\ api = "none"
  /\ \E database \in Partials :
       /\ normInput' = database
       /\ outcome' = [kind |-> "returned",
                      value |-> Obj(populateDefaultValues(database,
                                                          Uuid(uuids + 1)))]
       /\ uuids' = IF database.id = Undef THEN uuids + 1 ELSE uuids
  /\ api' = "populateDefaultValues"
  /\ UNCHANGED <<env, hostEnvs, envPrep, file, filePc, filePrep, certCall>>

\* getCertificateData(envPrefix, id) is called
CallGetCertificateData ==
  /\ api = "none"
  /\ \E e \in CertSnapshots, envPrefix \in Prefixes, id \in Suffixes :
       /\ env' = e
       /\ certCall' = [envPrefix |-> envPrefix, id |-> id, warned |-> FALSE,
                       readFile |-> FALSE, read |-> [kind |-> "none"]]
  /\ api' = "getCertificateData"
  /\ outcome' = [kind |-> "pending"]
  /\ UNCHANGED <<hostEnvs, envPrep, file, filePc, filePrep, uuids,
                 normInput>>

\* getCertificateData returns, after the file read settled if it made one
ReturnCertificateData ==
  /\ api = "getCertificateData"
  /\ outcome.kind = "pending"
  /\ LET src == CertificateSource(certCall.envPrefix, certCall.id)
     IN \E read \in (IF src.kind = "read" THEN ReadOutcomes
                     ELSE {[kind |-> "none"]}) :
          LET r == getCertificateData(certCall.envPrefix, certCall.id, read)
          IN /\ outcome' = [kind |-> "returned", value |-> r.value]
             /\ certCall' = [certCall EXCEPT !.warned = r.warned,
                                             !.readFile = r.readFile,
                                             !.read = read]
  /\ UNCHANGED <<env, api, hostEnvs, envPrep, file, filePc, filePrep, uuids,
                 normInput>>

Init ==
  /\ env = EmptyEnv
  /\ api = "none"
  /\ outcome = [kind |-> "none"]
  /\ hostEnvs = <<>>
  /\ envPrep = [s \in Suffixes |-> IdlePrep]
  /\ file = [exists |-> FALSE, read |-> [kind |-> "error"]]
  /\ filePc = "idle"
  /\ filePrep = <<>>
  /\ uuids = 0
  /\ normInput = Undef
  /\ certCall = Undef

NextEnv ==
  \/ CallDiscoverEnv
  \/ \E s \in Suffixes : ResolveSecret(s)
  \/ \E s \in Suffixes : HangRead(s)
  \/ \E s \in Suffixes : ValidateEnv(s)
  \/ JoinEnv

Next ==
  \/ NextEnv
  \/ CallDiscoverFile
  \/ FilePathExists
  \/ FileRead
  \/ \E i \in DOMAIN filePrep : ValidateFile(i)
  \/ JoinFile
  \/ CallPopulate
  \/ CallGetCertificateData
  \/ ReturnCertificateData

Spec == Init /\ [][Next]_vars

\* the event loop runs every continuation whose promise has settled
EnvFairness ==
  /\ \A s \in Suffixes : WF_vars(ResolveSecret(s))
  /\ \A s \in Suffixes : WF_vars(ValidateEnv(s))
  /\ WF_vars(JoinEnv)

\* discoverEnvDatabasesToAdd over the snapshots whose secrets are in files
CallDiscoverEnvWithPaths == CallDiscoverEnvFrom(PathSnapshots)

NextFair ==
  \/ CallDiscoverEnvWithPaths
  \/ \E s \in Suffixes : ResolveSecret(s)
  \/ \E s \in Suffixes : HangRead(s)
  \/ \E s \in Suffixes : ValidateEnv(s)
  \/ JoinEnv

FairSpec == Init /\ [][NextFair]_vars /\ EnvFairness

(* ------------------------------ the claims ----------------------------- *)

EnvCall == api = "discoverEnvDatabasesToAdd"
FileCall == api = "discoverFileDatabasesToAdd"
Returned == outcome.kind = "returned"

\* the file is missing, unreadable, no JSON, or JSON that is no array
FileUnusable ==
  \/ ~file.exists
  \/ file.read.kind = "error"
  \/ file.read.text.kind = "garbage"
  \/ file.read.text.value.t # "array"

\* the definitions of the preparations that passed validation, in order
PassedDefinitions(preps) ==
  LET Passed(p) == p.passed
      sel == SelectSeq(preps, Passed)
  IN [i \in DOMAIN sel |-> sel[i].prepared]

EnvPreps == [i \in DOMAIN hostEnvs |-> envPrep[hostEnvs[i]]]

\* C1: both discovery functions end by returning a collection and never by
\* raising; a missing path and an unusable file give the empty collection.
C1_AlwaysReturnsCollection ==
  (EnvCall \/ FileCall) =>
    /\ outcome.kind \in {"pending", "returned"}
    /\ Returned => DOMAIN outcome.value = 1..Len(outcome.value)
    /\ (FileCall /\ filePc = "done") => Returned
    /\ (FileCall /\ filePc = "done" /\ FileUnusable) => outcome.value = <<>>
    /\ (EnvCall /\ Returned /\ hostEnvs = <<>>) => outcome.value = <<>>

\* an existing file whose JSON is no array made the call return []
C1_Witness ==
  /\ FileCall /\ filePc = "done" /\ Returned
  /\ file.exists /\ file.read.kind = "ok" /\ file.read.text.kind = "json"
  /\ file.read.text.value = Null
  /\ outcome.value = <<>>

\* C2: the returned collection holds the normalized definition of exactly
\* the entries whose own preparation passed validation, and that definition
\* is computed from the entry's own input alone.
C2_ExactlyThePassedEntries ==
  /\ (EnvCall /\ Returned) =>
       /\ outcome.value = PassedDefinitions(EnvPreps)
       /\ \A s \in Suffixes : Started(s) =>
            envPrep[s].prepared =
              Obj(populateDefaultValues(
                    WithCertificates(DatabaseFromEnvs(s), envPrep[s].tlsCA,
                                     envPrep[s].tlsCertificate,
                                     envPrep[s].tlsKey),
                    Undef))
  /\ (FileCall /\ Returned /\ ~FileUnusable) =>
       /\ outcome.value = PassedDefinitions(filePrep)
       /\ Len(filePrep) = Len(file.read.text.value.v)
       /\ \A i \in DOMAIN filePrep :
            /\ filePrep[i].element = file.read.text.value.v[i]
            /\ filePrep[i].passed =>
                 \E n \in 1..Len(filePrep) :
                   filePrep[i].prepared =
                     Obj(populateDefaultValues(AsPartial(filePrep[i].element),
                                               Uuid(n)))

\* one host key passed validation, another did not, and exactly the first
\* one's definition was returned
C2_Witness ==
  /\ EnvCall /\ Returned
  /\ \E s, s2 \in Suffixes :
       /\ Started(s) /\ Started(s2)
       /\ envPrep[s].passed /\ ~envPrep[s2].passed
       /\ outcome.value = <<envPrep[s].prepared>>

\* C3: no two definitions of one returned collection have the same id.
C3_UniqueIds ==
  ((EnvCall \/ FileCall) /\ Returned) =>
    \A i, j \in DOMAIN outcome.value :
      i # j => outcome.value[i].v.id # outcome.value[j].v.id

\* C4: whatever read hangs, every other started preparation completes, and
\* the call returns only after every preparation has completed.
C4_OthersStillComplete ==
  /\ \A s \in Suffixes :
       [](Started(s) => <>(envPrep[s].pc = "done" \/ envPrep[s].hung))
  /\ [](Returned => \A s \in Suffixes : Started(s) => envPrep[s].pc = "done")

\* one preparation hangs on its read, another has completed, and the call
\* has not returned
C4_Witness ==
  /\ EnvCall /\ outcome.kind = "pending"
  /\ \E s, s2 \in Suffixes :
       /\ Started(s) /\ envPrep[s].hung
       /\ Started(s2) /\ envPrep[s2].pc = "done"


PopulateCall == api = "populateDefaultValues"
CertificateCall == api = "getCertificateData"

\* C5: populateDefaultValues stamps each certificate its input holds with
\* the id of the result, the name "{result id}_{result name}" and
\* isPreSetup = true.
C5_CertificatesStamped ==
  (PopulateCall /\ Returned) =>
    \A cert \in {"caCert", "clientCert"} :
      normInput[cert].t = "object" =>
        LET r == outcome.value.v
        IN /\ r[cert].t = "object"
           /\ r[cert].v.id = r.id
           /\ r[cert].v.name =
                Str(JsString(r.id) \o <<"_">> \o JsString(r.name))
           /\ r[cert].v.isPreSetup = Bool(TRUE)

\* whether a definition carries a client certificate with both parts
HasClientCertAndKey(d) ==
  /\ d.clientCert.t = "object"
  /\ Truthy(d.clientCert.v.certificate)
  /\ Truthy(d.clientCert.v.key)

\* C6: every definition either pipeline returns with a client certificate
\* and key has verifyServerCert = true.
C6_ClientCertForcesVerify ==
  ((EnvCall \/ FileCall) /\ Returned) =>
    \A i \in DOMAIN outcome.value :
      HasClientCertAndKey(outcome.value[i].v) =>
        outcome.value[i].v.verifyServerCert = Bool(TRUE)

\* C7: populateDefaultValues gives every unset field the value of the
\* default table (db 0 among them), keeps every supplied value, and always
\* sets connectionType = NOT_CONNECTED and isPreSetup = true.
C7_DefaultTable ==
  (PopulateCall /\ Returned) =>
    LET d == normInput
        r == outcome.value.v
        Is(f, dflt) == r[f] = (IF d[f] = Undef THEN dflt ELSE d[f])
    IN /\ r.host = d.host
       /\ d.id # Undef => r.id = d.id
       /\ Is("port", Num(6379))
       /\ Is("name", Str(JsString(d.host) \o <<":">> \o JsString(r.port)))
       /\ Is("db", Num(0))
       /\ Is("provider", Null)
       /\ Is("modules", Arr(<<>>))
       /\ Is("verifyServerCert", Null)
       /\ Is("ssh", Null)
       /\ Is("sshOptions", Null)
       /\ Is("tls", Bool(FALSE))
       /\ Is("tlsServername", Null)
       /\ Is("nameFromProvider", Null)
       /\ Is("username", Null)
       /\ Is("password", Null)
       /\ Is("compressor", CompressorNONE)
       /\ r.connectionType = NOT_CONNECTED
       /\ r.isPreSetup = Bool(TRUE)

\* C8: the compressor of every normalized definition is a member of the
\* enum, and is NONE when the source value was unset, null or no member.
C8_CompressorRecognized ==
  /\ (PopulateCall /\ Returned) =>
       /\ outcome.value.v.compressor \in Compressors
       /\ normInput.compressor \notin Compressors =>
            outcome.value.v.compressor = CompressorNONE
  /\ ((EnvCall \/ FileCall) /\ Returned) =>
       \A i \in DOMAIN outcome.value :
         outcome.value[i].v.compressor \in Compressors

\* C9: a host key RI_REDIS_HOST{s} that passes validation is returned with
\* id s ("0" for the empty suffix), its host, the parsed port (6379 when
\* absent or unparsable), the parsed db (or 0), and tls iff "true".
C9_EnvFieldMapping ==
  (EnvCall /\ Returned) =>
    \A s \in Suffixes :
      (Started(s) /\ envPrep[s].passed) =>
        \E i \in DOMAIN outcome.value :
          LET d == outcome.value[i].v
              port == parseInt(env[Key("RI_REDIS_PORT", s)])
              db == parseInt(env[Key("RI_REDIS_DB", s)])
          IN /\ d.id = Str(IF s = <<>> THEN <<"0">> ELSE s)
             /\ d.host = env[Key("RI_REDIS_HOST", s)]
             /\ d.port = (IF port.t = "number" THEN port ELSE Num(6379))
             /\ d.db = (IF db.t = "number" THEN db ELSE Num(0))
             /\ d.tls = Bool(env[Key("RI_REDIS_TLS", s)] = TrueString)

\* C10: getCertificateData returns the decoded inline value when it is set
\* and non-empty, without reading a file; else the contents of the file at
\* the set path when the read succeeds; else null.  Only a failed read
\* warns, and the call never raises.
C10_InlineThenPathThenNull ==
  CertificateCall =>
    /\ outcome.kind \in {"pending", "returned"}
    /\ Returned =>
         LET b == env[Key(Base64Var(certCall.envPrefix), certCall.id)]
             p == env[Key(PathVar(certCall.envPrefix), certCall.id)]
             inline == b.t = "string" /\ b.v # <<>>
             hasPath == p.t = "string" /\ p.v # <<>>
         IN /\ inline =>
                 /\ outcome.value = Str(Base64Decode(b.v))
                 /\ ~certCall.readFile /\ ~certCall.warned
            /\ b = Str(<<"Y", "Q", "=", "=">>) => outcome.value = Str(<<"a">>)
            /\ (~inline /\ hasPath) =>
                 /\ certCall.readFile
                 /\ certCall.read.kind = "ok" =>
                      outcome.value = Str(certCall.read.data) /\ ~certCall.warned
                 /\ certCall.read.kind = "error" =>
                      outcome.value = Null /\ certCall.warned
            /\ (~inline /\ ~hasPath) =>
                 outcome.value = Null /\ ~certCall.warned /\ ~certCall.readFile

\* the inline value and the path are both set, and the decoded inline value
\* came back without a file read
C10_Witness ==
  /\ CertificateCall /\ Returned
  /\ env[Key(Base64Var(certCall.envPrefix), certCall.id)] =
       Str(<<"Y", "Q", "=", "=">>)
  /\ Truthy(env[Key(PathVar(certCall.envPrefix), certCall.id)])
  /\ outcome.value = Str(<<"a">>)
  /\ ~certCall.readFile

====
